---- MODULE Spec2Model ----
(***************************************************************************)
(* DORA metrics aggregation: the series builders, the four calculators,    *)
(* the two /metrics handlers (GitHub, ServiceNow) and Dashboard.fetchMetrics*)
(*                                                                         *)
(* Time is counted in whole hours since the Unix epoch (hour 0 is          *)
(* 1970-01-01T00:00Z).  A calendar date string "YYYY-MM-DD" is modelled by *)
(* its day number since the epoch: the mapping is one-to-one and keeps the *)
(* order, so equality and ordering of date strings are equality and        *)
(* ordering of day numbers.                                                *)
(***************************************************************************)
EXTENDS Integers, Sequences, FiniteSets, TLC

VARIABLES
  now,      \* the wall clock, in hours since the epoch
  tz,       \* the time zone of the host
  op, args, ret,   \* a call of a builder or calculator: its name, arguments, result
  snReq,    \* ServiceNow GET /metrics: the request in flight, or none
  snResp,   \* ServiceNow GET /metrics: the response in flight, or none
  ghResp,   \* GitHub GET /metrics: the response in flight, or none
  gh,       \* the GitHub repository: its workflow runs (newest first), pulls, issues
  mounted,  \* Dashboard: the component has mounted (its useEffect has run)
  metrics,  \* Dashboard state: the four summary values
  metricHistory,  \* Dashboard state: metricHistory.deployment_frequency
  dataSources,    \* Dashboard state: the configured data sources
  loading,  \* Dashboard state
  calls,    \* the fetchMetrics calls: where each is, and what it captured
  creating, \* handleCreateDataSource: where it is, and the dataSources it captured
  console,  \* what the last step wrote: console.error lines and error toasts
  detailsView  \* MetricDetails: its state and the two requests of fetchDetails

snVars == <<snReq, snResp, ghResp>>
dashVars == <<gh, mounted, metrics, metricHistory, dataSources, loading, calls, creating,
              console, detailsView>>
vars == <<now, tz, op, args, ret, snReq, snResp, ghResp,
          gh, mounted, metrics, metricHistory, dataSources, loading, calls, creating,
          console, detailsView>>

(***************************************************************************)
(* Bounds of the model.                                                    *)
(***************************************************************************)
BaseDay == 20000
MaxDays == 3
MaxEvents == 2
MaxRecords == 3
MaxSnDays == 2
MaxRuns == 2
MaxUpstream == 4
\* the page size of the GitHub list requests (perPage = 100 in the program),
\* scaled down so that paging happens
PerPage == 2

HoursPerDay == 24
BaseHour == HoursPerDay * BaseDay

(***************************************************************************)
(* JavaScript Date.  A raw timestamp field of a record is                  *)
(*   tag "ok"    a parseable ISO string, h its instant in hours            *)
(*   tag "undef" the field is absent (undefined)                           *)
(*   tag "null"  the field is null                                         *)
(*   tag "bad"   a non-empty string Date cannot parse                      *)
(***************************************************************************)
Ts(h) == [tag |-> "ok", h |-> h]
TsUndef == [tag |-> "undef", h |-> 0]
TsNull == [tag |-> "null", h |-> 0]
TsBad == [tag |-> "bad", h |-> 0]

\* truthiness of a raw field: undefined and null are falsy, any non-empty string is truthy
Truthy(raw) == raw.tag \in {"ok", "bad"}

\* new Date(raw): [valid, t].  new Date(null) is the epoch, new Date(undefined)
\* and new Date("garbage") are Invalid Date.
NewDate(raw) ==
  CASE raw.tag = "ok" -> [valid |-> TRUE, t |-> raw.h]
    [] raw.tag = "null" -> [valid |-> TRUE, t |-> 0]
    [] OTHER -> [valid |-> FALSE, t |-> 0]

\* date.toISOString().slice(0, 10): the UTC calendar day of an instant
UTCDay(t) == t \div HoursPerDay

\* The host's time zone: offset o1 (hours east of UTC) before the instant
\* trans, o1 + delta from trans on.  delta = 0 is a zone without a transition.
Offset(z, u) == IF u < z.trans THEN z.o1 ELSE z.o1 + z.delta

\* LocalTime(t) of ECMAScript
LocalTime(z, u) == u + Offset(z, u)

\* UTC(t) of ECMAScript: a repeated local time is the earlier instant, a
\* skipped local time is read with the offset before the transition.
UTCOfLocal(z, l) ==
  IF l - z.o1 < z.trans THEN l - z.o1
  ELSE IF l - (z.o1 + z.delta) >= z.trans THEN l - (z.o1 + z.delta)
  ELSE l - z.o1

\* d = new Date(today); d.setDate(today.getDate() - k): k local calendar days
\* back, the local time of day kept
SetDateBack(z, today, k) == UTCOfLocal(z, LocalTime(z, today) - HoursPerDay * k)

\* the key of loop index i (0-based) of a window of `days` days
WindowKey(z, today, days, i) == UTCDay(SetDateBack(z, today, days - 1 - i))

RECURSIVE SumSeq(_)
SumSeq(s) == IF s = <<>> THEN 0 ELSE Head(s) + SumSeq(Tail(s))

(***************************************************************************)
(* Strings are sequences of one-character strings, so that toLowerCase and *)
(* includes are computed.  A null or absent string field is <<>>.          *)
(***************************************************************************)
SUCCESS == <<"s", "u", "c", "c", "e", "s", "s">>
FAILURE == <<"f", "a", "i", "l", "u", "r", "e">>
CANCELLED == <<"c", "a", "n", "c", "e", "l", "l", "e", "d">>
NoStr == <<>>

(***************************************************************************)
(* A map from day keys to counts: a JavaScript object used as a dictionary.*)
(* `keys` is the insertion order of the keys (Object.keys), `val` the      *)
(* value of each key.                                                      *)
(***************************************************************************)
EmptyObj == [keys |-> <<>>, val |-> <<>>]

RECURSIVE IndexOf(_, _, _)
IndexOf(keys, k, i) ==
  IF i > Len(keys) THEN 0
  ELSE IF keys[i] = k THEN i
  ELSE IndexOf(keys, k, i + 1)

Has(o, k) == IndexOf(o.keys, k, 1) # 0

\* o[k], undefined read as 0 by the callers' `|| 0`
Get(o, k) == IF Has(o, k) THEN o.val[IndexOf(o.keys, k, 1)] ELSE 0

\* o[k] = v: an existing key keeps its place, a new key is appended
Put(o, k, v) ==
  IF Has(o, k)
  THEN [o EXCEPT !.val[IndexOf(o.keys, k, 1)] = v]
  ELSE [keys |-> Append(o.keys, k), val |-> Append(o.val, v)]

(***************************************************************************)
(* buildDeploymentSeries (backend/routes/github.js)                        *)
(***************************************************************************)
\* a variant of the loop that counts every run with a date, whatever its
\* conclusion
RECURSIVE CountRunsAnyConclusion(_, _, _)
CountRunsAnyConclusion(workflowRuns, conclusionType, countsByDate) ==
  IF workflowRuns = <<>> THEN [threw |-> FALSE, counts |-> countsByDate]
  ELSE LET run == Head(workflowRuns)
       IN IF ~Truthy(run.created_at)
          THEN CountRunsAnyConclusion(Tail(workflowRuns), conclusionType, countsByDate)
          ELSE IF ~NewDate(run.created_at).valid
          THEN [threw |-> TRUE, counts |-> countsByDate]
          ELSE LET day == UTCDay(NewDate(run.created_at).t)
               IN CountRunsAnyConclusion(Tail(workflowRuns), conclusionType,
                            Put(countsByDate, day, Get(countsByDate, day) + 1))

\* the loop over workflowRuns: countsByDate, or "threw" when toISOString
\* meets an Invalid Date (RangeError: Invalid time value)
RECURSIVE CountRuns(_, _, _)
CountRuns(workflowRuns, conclusionType, countsByDate) ==
  IF workflowRuns = <<>> THEN [threw |-> FALSE, counts |-> countsByDate]
  ELSE LET run == Head(workflowRuns)
       IN IF run.conclusion # conclusionType \/ ~Truthy(run.created_at)
          THEN CountRuns(Tail(workflowRuns), conclusionType, countsByDate)
          ELSE IF ~NewDate(run.created_at).valid
          THEN [threw |-> TRUE, counts |-> countsByDate]
          ELSE LET day == UTCDay(NewDate(run.created_at).t)
               IN CountRuns(Tail(workflowRuns), conclusionType,
                            Put(countsByDate, day, Get(countsByDate, day) + 1))

RawSeries(z, today, days, countsByDate) ==
  [i \in 1..days |->
     [date |-> WindowKey(z, today, days, i - 1),
      count |-> Get(countsByDate, WindowKey(z, today, days, i - 1))]]

buildDeploymentSeries(z, today, workflowRuns, days, conclusionType) ==
  LET c == CountRuns(workflowRuns, conclusionType, EmptyObj)
      rawSeries == RawSeries(z, today, days, c.counts)
  IN IF c.threw
     THEN [threw |-> TRUE, series |-> <<>>, total |-> 0]
     ELSE [threw |-> FALSE,
           series |-> [i \in 1..days |-> [date |-> rawSeries[i].date, value |-> rawSeries[i].count]],
           total |-> SumSeq([i \in 1..days |-> rawSeries[i].count])]

(***************************************************************************)
(* buildDeploymentSeriesFromDeployments (ServiceNow route) and             *)
(* buildSeriesFromDeployments (MetricDetails)                              *)
(***************************************************************************)
\* the first loop of both: counts[key] = 0 for every day of the window
RECURSIVE InitCounts(_, _, _, _, _)
InitCounts(z, today, days, i, counts) ==
  IF i >= days THEN counts
  ELSE InitCounts(z, today, days, i + 1, Put(counts, WindowKey(z, today, days, i), 0))

\* Object.keys(counts).map((date) => ({ date, value: counts[date] }))
SeriesOf(counts) ==
  [i \in 1..Len(counts.keys) |-> [date |-> counts.keys[i], value |-> counts.val[i]]]

RECURSIVE CountDeployments(_, _)
CountDeployments(deployments, counts) ==
  IF deployments = <<>> THEN [threw |-> FALSE, counts |-> counts]
  ELSE LET d == Head(deployments)
       IN IF ~NewDate(d.deploy_time).valid
          THEN [threw |-> TRUE, counts |-> counts]
          ELSE LET day == UTCDay(NewDate(d.deploy_time).t)
               IN CountDeployments(Tail(deployments),
                    IF Has(counts, day) THEN Put(counts, day, Get(counts, day) + 1) ELSE counts)

buildDeploymentSeriesFromDeployments(z, today, deployments, days) ==
  LET c == CountDeployments(deployments, InitCounts(z, today, days, 0, EmptyObj))
      series == SeriesOf(c.counts)
  IN IF c.threw
     THEN [threw |-> TRUE, series |-> <<>>, total |-> 0]
     ELSE [threw |-> FALSE, series |-> series,
           total |-> SumSeq([i \in 1..Len(series) |-> series[i].value])]

\* d[dateField] || d.run_started_at || d.created_at || d.created
RawDate(d, dateField) ==
  IF Truthy(d[dateField]) THEN d[dateField]
  ELSE IF Truthy(d.run_started_at) THEN d.run_started_at
  ELSE IF Truthy(d.created_at) THEN d.created_at
  ELSE d.created

RECURSIVE CountByField(_, _, _)
CountByField(deployments, dateField, counts) ==
  IF deployments = <<>> THEN [threw |-> FALSE, counts |-> counts]
  ELSE LET raw == RawDate(Head(deployments), dateField)
       IN IF ~Truthy(raw)
          THEN CountByField(Tail(deployments), dateField, counts)
          ELSE IF ~NewDate(raw).valid
          THEN [threw |-> TRUE, counts |-> counts]
          ELSE LET day == UTCDay(NewDate(raw).t)
               IN CountByField(Tail(deployments), dateField,
                    IF Has(counts, day) THEN Put(counts, day, Get(counts, day) + 1) ELSE counts)

buildSeriesFromDeployments(z, today, deployments, days, dateField) ==
  LET c == CountByField(deployments, dateField, InitCounts(z, today, days, 0, EmptyObj))
  IN IF c.threw
     THEN [threw |-> TRUE, series |-> <<>>]
     ELSE [threw |-> FALSE, series |-> SeriesOf(c.counts)]

(***************************************************************************)
(* JavaScript numbers of the calculators: the rational n/d for d > 0, and  *)
(* NaN for d = 0.  Durations are whole hours.                              *)
(***************************************************************************)
Num(n) == [n |-> n, d |-> 1]
NaN == [n |-> 0, d |-> 0]
IsNaN(x) == x.d = 0
Finite(x) == x.d > 0
\* a / b for a number a and a positive integer b
DivInt(a, b) == IF IsNaN(a) THEN NaN ELSE [n |-> a.n, d |-> a.d * b]
Plus(a, b) == IF IsNaN(a) \/ IsNaN(b) THEN NaN ELSE [n |-> a.n * b.d + b.n * a.d, d |-> a.d * b.d]
NumEq(a, b) == Finite(a) /\ Finite(b) /\ a.n * b.d = b.n * a.d
\* h >= 0, false for NaN
GeZero(x) == Finite(x) /\ x.n >= 0

\* (b - a) / (1000 * 60 * 60) for two Date objects: NaN when either is invalid
HoursBetween(a, b) == IF a.valid /\ b.valid THEN Num(b.t - a.t) ELSE NaN

\* xs.reduce((a, b) => a + b, 0)
RECURSIVE SumNums(_)
SumNums(xs) == IF xs = <<>> THEN Num(0) ELSE Plus(Head(xs), SumNums(Tail(xs)))

\* String.prototype.toLowerCase and String.prototype.includes
LowerChar(c) ==
  CASE c = "F" -> "f" [] c = "A" -> "a" [] c = "I" -> "i" [] c = "L" -> "l"
    [] c = "E" -> "e" [] c = "D" -> "d" [] c = "N" -> "n" [] c = "C" -> "c"
    [] c = "T" -> "t" [] c = "S" -> "s" [] c = "U" -> "u"
    [] OTHER -> c
ToLowerCase(str) == [i \in DOMAIN str |-> LowerChar(str[i])]
Includes(str, sub) ==
  \E i \in 0..(Len(str) - Len(sub)) : SubSeq(str, i + 1, i + Len(sub)) = sub

FAIL == <<"f", "a", "i", "l">>
INCIDENT == <<"i", "n", "c", "i", "d", "e", "n", "t">>
CLOSED == <<"c", "l", "o", "s", "e", "d">>
OPEN == <<"o", "p", "e", "n">>

(***************************************************************************)
(* The calculators of backend/routes/github.js                             *)
(***************************************************************************)
\* one entry of pulls.map(...): an unmerged pull request gives 0
LeadTimeOfPull(pr) ==
  IF ~Truthy(pr.merged_at) THEN Num(0)
  ELSE HoursBetween(NewDate(pr.created_at), NewDate(pr.merged_at))

calculateLeadTime(pulls) ==
  IF Len(pulls) = 0 THEN Num(0)
  ELSE DivInt(SumNums([i \in DOMAIN pulls |-> LeadTimeOfPull(pulls[i])]), Len(pulls))

\* a variant that counts every run that did not succeed as failed
calculateChangeFailureRateSummaryNotSuccess(workflowRuns) ==
  IF Len(workflowRuns) = 0 THEN Num(0)
  ELSE [n |-> Len(SelectSeq(workflowRuns, LAMBDA run : run.conclusion # SUCCESS)) * 100,
        d |-> Len(workflowRuns)]

calculateChangeFailureRateSummary(workflowRuns) ==
  IF Len(workflowRuns) = 0 THEN Num(0)
  ELSE [n |-> Len(SelectSeq(workflowRuns, LAMBDA run : run.conclusion = FAILURE)) * 100,
        d |-> Len(workflowRuns)]

IsResolvedIncident(issue) ==
  /\ \E i \in DOMAIN issue.labels : Includes(ToLowerCase(issue.labels[i]), INCIDENT)
  /\ issue.state = CLOSED

calculateMTTR(issues) ==
  LET resolvedIssues == SelectSeq(issues, IsResolvedIncident)
      recoveryTimes == [i \in DOMAIN resolvedIssues |->
                          HoursBetween(NewDate(resolvedIssues[i].created_at),
                                       NewDate(resolvedIssues[i].closed_at))]
  IN IF Len(resolvedIssues) = 0 THEN Num(0)
     ELSE DivInt(SumNums(recoveryTimes), Len(recoveryTimes))

(***************************************************************************)
(* The calculators of the ServiceNow route                                 *)
(***************************************************************************)
\* deploymentsMap[`cr-${d.sys_id?.split('-')[1] || ''}`] = d.deploy_time.  An
\* identifier is the sequence of its '-'-separated parts: "dep-0-1" is
\* <<"dep", 0, 1>>, the key built from it is <<"cr", 0>>.
DeploymentsMapKeys(deployments) ==
  {<<"cr", deployments[i].sys_id[2]>> : i \in DOMAIN deployments}

DeploymentsMapGet(deployments, key) ==
  LET hits == {i \in DOMAIN deployments : <<"cr", deployments[i].sys_id[2]>> = key}
  IN IF hits = {} THEN TsUndef
     ELSE deployments[CHOOSE i \in hits : \A j \in hits : j <= i].deploy_time

\* the Date `implemented` of one change, or none
ImplementedOf(c, deployments) ==
  IF Truthy(c.implemented_on) THEN [some |-> TRUE, date |-> NewDate(c.implemented_on)]
  ELSE IF Truthy(DeploymentsMapGet(deployments, c.sys_id))
  THEN [some |-> TRUE, date |-> NewDate(DeploymentsMapGet(deployments, c.sys_id))]
  ELSE [some |-> FALSE, date |-> NewDate(TsUndef)]

RECURSIVE LeadTimesOf(_, _)
LeadTimesOf(changes, deployments) ==
  IF changes = <<>> THEN <<>>
  ELSE LET c == Head(changes)
           implemented == ImplementedOf(c, deployments)
           hours == HoursBetween(NewDate(c.sys_created_on), implemented.date)
       IN (IF implemented.some /\ GeZero(hours) THEN <<hours>> ELSE <<>>)
            \o LeadTimesOf(Tail(changes), deployments)

calculateLeadTimeHours(changes, deployments) ==
  LET leadTimes == LeadTimesOf(changes, deployments)
  IN IF Len(leadTimes) = 0 THEN Num(0)
     ELSE DivInt(SumNums(leadTimes), Len(leadTimes))

IsFailedChange(c) == c.result # NoStr /\ Includes(ToLowerCase(c.result), FAIL)

\* a variant that divides the failed changes by the changes that did not fail
calculateChangeFailureRatePercentPerSuccess(changes) ==
  IF Len(changes) = 0 THEN Num(0)
  ELSE [n |-> Len(SelectSeq(changes, IsFailedChange)) * 100,
        d |-> Len(changes) - Len(SelectSeq(changes, IsFailedChange))]

calculateChangeFailureRatePercent(changes) ==
  IF Len(changes) = 0 THEN Num(0)
  ELSE [n |-> Len(SelectSeq(changes, IsFailedChange)) * 100, d |-> Len(changes)]

calculateMTTRHours(incidents) ==
  LET both == SelectSeq(incidents, LAMBDA inc : Truthy(inc.opened_at) /\ Truthy(inc.closed_at))
      hours == [i \in DOMAIN both |->
                  HoursBetween(NewDate(both[i].opened_at), NewDate(both[i].closed_at))]
      durations == SelectSeq(hours, GeZero)
  IN IF Len(durations) = 0 THEN Num(0)
     ELSE DivInt(SumNums(durations), Len(durations))

(***************************************************************************)
(* Dashboard.js: the state of the component after construction.            *)
(***************************************************************************)
Rat(n, d) == [n |-> n, d |-> d]

\* the units of the metrics
TOTAL_DEPLOYMENTS == "total deployments"
DEPLOYMENTS_PER_DAY == "deployments per day"
HOURS == "hours"
PERCENT == "percent"

\* a metric of the Dashboard's state: {value, unit} (and a timestamp)
Metric(value, unit) == [value |-> value, unit |-> unit]

\* defaultMetrics: 0.5 deployments per day, 48 hours, 15 percent, 36 hours
defaultMetrics ==
  [deployment_frequency |-> Metric(Rat(1, 2), DEPLOYMENTS_PER_DAY),
   lead_time |-> Metric(Num(48), HOURS),
   change_failure_rate |-> Metric(Num(15), PERCENT),
   mean_time_to_recovery |-> Metric(Num(36), HOURS)]

\* sampleHistoricalData.deployment_frequency: 2025-10-21 .. 2025-10-27
SampleFirstDay == 20382
sampleDeploymentFrequency ==
  [i \in 1..7 |-> [date |-> SampleFirstDay + i - 1,
                   value |-> Rat(<<3, 5, 8, 6, 10, 7, 9>>[i], 10)]]

RunIds == 1..MaxRuns

NoOverride == [k |-> "undef", list |-> <<>>]
NoDs == [k |-> "list", list |-> <<>>]
\* the requests of fetchMetrics
GET_PRIMARY == "GET /data-sources/metrics"
GET_ALTERNATE == "GET /metrics/github"
\* a fetchMetrics call: `newest` marks the call that started last
IdleRun ==
  [pc |-> "idle", ds |-> NoDs, pending |-> defaultMetrics, requests |-> <<>>, newest |-> FALSE]

EmptyRepo == [runs |-> <<>>, pulls |-> <<>>, issues |-> <<>>]

\* MetricDetails before its effect has run
DetailsUnmounted ==
  [pc |-> "unmounted", detailsReq |-> "none", metricsReq |-> "none", metrics |-> <<>>,
   loading |-> FALSE, error |-> FALSE, series |-> <<>>]

DashboardInit ==
  /\ console = <<>>
  /\ detailsView = DetailsUnmounted
  /\ mounted = FALSE
  /\ metrics = defaultMetrics
  /\ metricHistory = sampleDeploymentFrequency
  /\ dataSources = <<>>
  /\ loading = FALSE
  /\ calls = [r \in RunIds |-> IdleRun]
  /\ creating = [pc |-> "idle", closure |-> <<>>]

(***************************************************************************)
(* The inputs of the series builders.                                      *)
(***************************************************************************)
\* a raw record of any vendor: the fields the builders read
Raw(conclusion, created_at, run_started_at, deploy_time, created) ==
  [conclusion |-> conclusion, created_at |-> created_at, run_started_at |-> run_started_at,
   deploy_time |-> deploy_time, created |-> created]

\* instants around the window: two days back at 23:00, the day before at
\* 00:00, the base day at 05:00, and nine days back (outside every window)
EventHours == {BaseHour - HoursPerDay - 1, BaseHour - HoursPerDay, BaseHour + 5,
               BaseHour - 9 * HoursPerDay}

RawTimes == {Ts(h) : h \in EventHours} \cup {TsUndef, TsNull, TsBad}

\* GitHub workflow runs
RunRecords ==
  {Raw(c, t, TsUndef, TsUndef, TsUndef) : c \in {SUCCESS, FAILURE}, t \in RawTimes}

\* ServiceNow deployments
DeploymentRecords == {Raw(NoStr, TsUndef, TsUndef, t, TsUndef) : t \in RawTimes}

\* records of the details view, with the aliased date fields
DetailRecords ==
  {Raw(NoStr, c, r, TsUndef, d) :
     c \in {TsUndef, Ts(BaseHour - HoursPerDay), TsBad},
     r \in {TsUndef, Ts(BaseHour + 5)},
     d \in {TsUndef, Ts(BaseHour - HoursPerDay - 1)}}

ListsOf(S) == UNION {[1..n -> S] : n \in 0..MaxEvents}

\* the times of day of the call: 00:00, 12:00 and 23:00 UTC of the base day
NowSet == {BaseHour, BaseHour + 12, BaseHour + 23}

\* UTC, a zone without transitions (UTC+9), and a zone at UTC-5/UTC-4 whose
\* clocks went back, or forward, on the day before the base day
TimeZones ==
  {[o1 |-> 0, trans |-> 0, delta |-> 0],
   [o1 |-> 9, trans |-> 0, delta |-> 0],
   [o1 |-> 0 - 4, trans |-> BaseHour - HoursPerDay + 6, delta |-> 0 - 1],
   [o1 |-> 0 - 5, trans |-> BaseHour - HoursPerDay + 7, delta |-> 1]}

NoRet == [threw |-> FALSE, series |-> <<>>]
NoOp == <<"none", NoStr>>
NoReq == [sent |-> FALSE, days |-> 0]
NoResp == [status |-> 0]

\* Scenario A of the specification: a 7-day window, two events on its first
\* day and one on its fourth; once as given and once with a stale event added
ScenarioHours == <<BaseHour - 6 * HoursPerDay + 10, BaseHour - 6 * HoursPerDay + 15,
                   BaseHour - 3 * HoursPerDay + 10>>
StaleHour == BaseHour - 9 * HoursPerDay

ScenarioA ==
  {[kind |-> "runs", days |-> 7, deployments |-> <<>>,
    list |-> [i \in 1..3 |-> Raw(SUCCESS, Ts(ScenarioHours[i]), TsUndef, TsUndef, TsUndef)] \o extra]
     : extra \in {<<>>, <<Raw(SUCCESS, Ts(StaleHour), TsUndef, TsUndef, TsUndef)>>}}
  \cup
  {[kind |-> "deployments", days |-> 7, deployments |-> <<>>,
    list |-> [i \in 1..3 |-> Raw(NoStr, TsUndef, TsUndef, Ts(ScenarioHours[i]), TsUndef)] \o extra]
     : extra \in {<<>>, <<Raw(NoStr, TsUndef, TsUndef, Ts(StaleHour), TsUndef)>>}}

\* two events at the ends of the window: one at the instant of the call and
\* one days - 1 days before it
BoundaryEvents(today, days) ==
  {[kind |-> "runs", days |-> days, deployments |-> <<>>,
    list |-> <<Raw(SUCCESS, Ts(today), TsUndef, TsUndef, TsUndef),
               Raw(SUCCESS, Ts(today - (days - 1) * HoursPerDay), TsUndef, TsUndef, TsUndef)>>],
   [kind |-> "deployments", days |-> days, deployments |-> <<>>,
    list |-> <<Raw(NoStr, TsUndef, TsUndef, Ts(today), TsUndef),
               Raw(NoStr, TsUndef, TsUndef, Ts(today - (days - 1) * HoursPerDay), TsUndef)>>]}

InitSeries ==
  /\ now \in NowSet
  /\ tz \in TimeZones
  /\ op = NoOp
  /\ ret = NoRet
  /\ snReq = NoReq /\ snResp = NoResp /\ ghResp = NoResp
  /\ gh = EmptyRepo /\ DashboardInit
  /\ \/ \E days \in 1..MaxDays :
          \/ \E l \in ListsOf(RunRecords) : args = [kind |-> "runs", list |-> l, days |-> days, deployments |-> <<>>]
          \/ \E l \in ListsOf(DeploymentRecords) :
               args = [kind |-> "deployments", list |-> l, days |-> days, deployments |-> <<>>]
          \/ \E l \in ListsOf(DetailRecords) :
               args = [kind |-> "details", list |-> l, days |-> days, deployments |-> <<>>]
     \/ args \in ScenarioA
     \/ \E days \in 1..MaxDays : args \in BoundaryEvents(now, days)

\* buildDeploymentSeries(workflowRuns, days, {}, conclusionType), as the
\* GitHub /metrics handler calls it with "success" and with "failure"
CallBuildDeploymentSeries ==
  /\ args.kind = "runs"
  /\ \E conclusionType \in {SUCCESS, FAILURE} :
       /\ op' = <<"buildDeploymentSeries", conclusionType>>
       /\ ret' = buildDeploymentSeries(tz, now, args.list, args.days, conclusionType)
  /\ UNCHANGED <<now, tz, args, snVars, dashVars>>

\* buildDeploymentSeriesFromDeployments(deployments, days)
CallBuildDeploymentSeriesFromDeployments ==
  /\ args.kind = "deployments"
  /\ op' = <<"buildDeploymentSeriesFromDeployments", NoStr>>
  /\ ret' = buildDeploymentSeriesFromDeployments(tz, now, args.list, args.days)
  /\ UNCHANGED <<now, tz, args, snVars, dashVars>>

\* buildSeriesFromDeployments(deployments, days, dateField), dateField as
\* fetchDetails chooses it
DateFieldOf(kind, deployments) ==
  IF kind = "deployments" THEN "deploy_time"
  ELSE IF deployments # <<>> /\ Truthy(deployments[1].run_started_at) THEN "run_started_at"
  ELSE "created_at"

CallBuildSeriesFromDeployments ==
  /\ op' = <<"buildSeriesFromDeployments", NoStr>>
  /\ ret' = buildSeriesFromDeployments(tz, now, args.list, args.days,
                                        DateFieldOf(args.kind, args.list))
  /\ UNCHANGED <<now, tz, args, snVars, dashVars>>

NextSeries ==
  \/ CallBuildDeploymentSeries
  \/ CallBuildDeploymentSeriesFromDeployments
  \/ CallBuildSeriesFromDeployments

SpecSeries == InitSeries /\ [][NextSeries]_vars

(***************************************************************************)
(* Claims about the series builders, checked under SpecSeries.             *)
(***************************************************************************)
Called == op[1] # "none"

\* C1: every series builder returns exactly `days` points, one per calendar
\* day, with strictly ascending dates, no gap and no duplicated date.
C1_ExactlyNDensePoints ==
  (Called /\ ~ret.threw) =>
    /\ Len(ret.series) = args.days
    /\ \A i \in 1..(Len(ret.series) - 1) : ret.series[i + 1].date = ret.series[i].date + 1

\* the same statement where the host's zone has no clock change: it holds
C1_DenseWithoutClockChange ==
  (Called /\ ~ret.threw /\ tz.delta = 0) =>
    /\ Len(ret.series) = args.days
    /\ \A i \in 1..(Len(ret.series) - 1) : ret.series[i + 1].date = ret.series[i].date + 1

\* the occurredAt field a builder reads, and whether the record is a
\* deployment event for the call
OccurredAt(rec) == IF args.kind = "runs" THEN rec.created_at ELSE rec.deploy_time
IsDeploymentEvent(rec) == args.kind = "runs" => rec.conclusion = op[2]

EventsOnDay(day) ==
  {j \in DOMAIN args.list :
     /\ IsDeploymentEvent(args.list[j])
     /\ OccurredAt(args.list[j]).tag = "ok"
     /\ OccurredAt(args.list[j]).h \div HoursPerDay = day}

WindowDays == {WindowKey(tz, now, args.days, i) : i \in 0..(args.days - 1)}

BuilderWithTotal == op[1] \in {"buildDeploymentSeries", "buildDeploymentSeriesFromDeployments"}

BoundaryInstants ==
  {now, now - (args.days - 1) * HoursPerDay,
   (UTCDay(now) - (args.days - 1)) * HoursPerDay}

CountedInSeries(rec) ==
  \E i \in DOMAIN ret.series :
    ret.series[i].date = UTCDay(OccurredAt(rec).h) /\ ret.series[i].value >= 1

\* C20: an event that occurs at exactly the lower or the upper boundary
\* instant of the window is counted in the series
C20_BoundaryEventsCounted ==
  (BuilderWithTotal /\ ~ret.threw) =>
    \A j \in DOMAIN args.list :
      (/\ IsDeploymentEvent(args.list[j])
       /\ OccurredAt(args.list[j]).tag = "ok"
       /\ OccurredAt(args.list[j]).h \in BoundaryInstants)
        => CountedInSeries(args.list[j])

\* the same statement where the host's zone has no clock change: it holds
C20_BoundaryWithoutClockChange ==
  (BuilderWithTotal /\ ~ret.threw /\ tz.delta = 0) =>
    \A j \in DOMAIN args.list :
      (/\ IsDeploymentEvent(args.list[j])
       /\ OccurredAt(args.list[j]).tag = "ok"
       /\ OccurredAt(args.list[j]).h \in BoundaryInstants)
        => CountedInSeries(args.list[j])

\* the list with the records whose timestamp is missing or unparseable removed
Parseable(list) == SelectSeq(list, LAMBDA rec : OccurredAt(rec).tag = "ok")

\* C9: a record whose timestamp is missing or unparseable is dropped as a
\* single event: the builder finishes normally with the result computed from
\* the remaining events.
C9_MalformedRecordIsDropped ==
  BuilderWithTotal =>
    /\ ~ret.threw
    /\ op[1] = "buildDeploymentSeries" =>
         ret = buildDeploymentSeries(tz, now, Parseable(args.list), args.days, op[2])
    /\ op[1] = "buildDeploymentSeriesFromDeployments" =>
         ret = buildDeploymentSeriesFromDeployments(tz, now, Parseable(args.list), args.days)

\* the timestamp of a record as the specification extracts it: the first of
\* deploy_time, run_started_at, created_at, created that is present and
\* parseable, or none
ExtractedTimestamp(rec) ==
  LET fields == <<rec.deploy_time, rec.run_started_at, rec.created_at, rec.created>>
      ok == {i \in 1..4 : fields[i].tag = "ok"}
  IN IF ok = {} THEN TsUndef
     ELSE fields[CHOOSE i \in ok : \A j \in ok : i <= j]

RecordsOnDay(day) ==
  {j \in DOMAIN args.list :
     /\ ExtractedTimestamp(args.list[j]).tag = "ok"
     /\ UTCDay(ExtractedTimestamp(args.list[j]).h) = day}

\* C22: buildSeriesFromDeployments takes the timestamp of a record from
\* deploy_time, run_started_at, created_at, created in that order, using the
\* first value that is non-null and parseable, and drops a record for which
\* none of them parses: it finishes normally and every point counts the
\* records whose extracted timestamp falls on its day
C22_TimestampByFixedPriority ==
  op[1] = "buildSeriesFromDeployments" =>
    /\ ~ret.threw
    /\ \A i \in DOMAIN ret.series :
         ret.series[i].value = Cardinality(RecordsOnDay(ret.series[i].date))

\* the same statement for records without an unparseable field: it fails
\* too, on the order of the fields
C22_PriorityOfParseableFields ==
  (/\ op[1] = "buildSeriesFromDeployments"
   /\ \A j \in DOMAIN args.list :
        \A f \in {"deploy_time", "run_started_at", "created_at", "created"} :
          args.list[j][f].tag # "bad")
    => /\ ~ret.threw
       /\ \A i \in DOMAIN ret.series :
            ret.series[i].value = Cardinality(RecordsOnDay(ret.series[i].date))

\* the same statement for records that carry one timestamp field, parseable
\* or absent: it holds
C22_SingleFieldRecords ==
  (/\ op[1] = "buildSeriesFromDeployments"
   /\ args.kind \in {"runs", "deployments"}
   /\ \A j \in DOMAIN args.list : OccurredAt(args.list[j]).tag \in {"ok", "undef"})
    => /\ ~ret.threw
       /\ \A i \in DOMAIN ret.series :
            ret.series[i].value = Cardinality(RecordsOnDay(ret.series[i].date))

(***************************************************************************)
(* The inputs of the calculators.  Day 0 10:00 is BaseHour + 10.           *)
(***************************************************************************)
SUCCESSFUL == <<"s", "u", "c", "c", "e", "s", "s", "f", "u", "l">>
FAILED == <<"f", "a", "i", "l", "e", "d">>
FAILED_CAP == <<"F", "a", "i", "l", "e", "d">>
INCIDENT_CAP == <<"I", "n", "c", "i", "d", "e", "n", "t">>
BUG == <<"b", "u", "g">>
\* conclusions of GitHub workflow runs that contain "fail" and are not "failure"
FAILURE_CAP == <<"F", "a", "i", "l", "u", "r", "e">>
STARTUP_FAILURE == <<"s", "t", "a", "r", "t", "u", "p", "_", "f", "a", "i", "l", "u", "r", "e">>

Created == BaseHour + 10

\* resolution instants: 24 h and 6 h after creation, and 5 h before it
Resolutions == {Ts(Created + 24), Ts(Created + 6), Ts(Created - 5)}

\* GitHub pull requests
PullRecords ==
  {[created_at |-> Ts(Created), merged_at |-> m] : m \in Resolutions \cup {TsNull, TsBad}}

\* GitHub issues: an open issue has closed_at null
IssueRecords ==
  {[labels |-> l, state |-> sc[1], created_at |-> Ts(Created), closed_at |-> sc[2]] :
     l \in {<<BUG>>, <<INCIDENT_CAP>>, <<BUG, INCIDENT>>},
     sc \in {<<OPEN, TsNull>>} \cup {<<CLOSED, r>> : r \in Resolutions}}

\* GitHub workflow runs, by conclusion (null for a run in progress)
ConclusionRecords ==
  {Raw(c, Ts(BaseHour + 5), TsUndef, TsUndef, TsUndef) :
     c \in {SUCCESS, FAILURE, CANCELLED, NoStr, FAILURE_CAP, STARTUP_FAILURE}}

\* ServiceNow change requests, deployments and incidents
ChangeRecords ==
  {[sys_id |-> <<"cr", 0, 0>>, sys_created_on |-> Ts(Created), implemented_on |-> m, result |-> r] :
     m \in Resolutions \cup {TsNull}, r \in {SUCCESSFUL, FAILED, FAILED_CAP, NoStr}}

DeploymentLists ==
  {<<>>, <<[sys_id |-> <<"dep", 0, 0>>, deploy_time |-> Ts(Created + 24)]>>}

IncidentRecords ==
  {[opened_at |-> o, closed_at |-> c] :
     o \in {Ts(Created), TsUndef}, c \in Resolutions \cup {TsNull, TsBad}}

RecordLists(S) == UNION {[1..n -> S] : n \in 0..MaxRecords}

\* Scenario C of the specification: 10 changes of which 3 failed
ScenarioC ==
  {[kind |-> "runs", days |-> 1, deployments |-> <<>>,
    list |-> [i \in 1..10 |->
                Raw(IF i <= 3 THEN FAILURE ELSE SUCCESS,
                    Ts(BaseHour + 5), TsUndef, TsUndef, TsUndef)]],
   [kind |-> "changes", days |-> 1, deployments |-> <<>>,
    list |-> [i \in 1..10 |->
                [sys_id |-> <<"cr", 0, 0>>, sys_created_on |-> Ts(Created),
                 implemented_on |-> Ts(Created + 6),
                 result |-> IF i <= 3 THEN FAILED ELSE SUCCESSFUL]]]}

CalcArgs(kind, list, deployments) ==
  [kind |-> kind, list |-> list, days |-> 1, deployments |-> deployments]

InitCalc ==
  /\ now = BaseHour
  /\ tz \in {z \in TimeZones : z.o1 = 0}
  /\ op = NoOp
  /\ ret = NoRet
  /\ snReq = NoReq /\ snResp = NoResp /\ ghResp = NoResp
  /\ gh = EmptyRepo /\ DashboardInit
  /\ \/ \E l \in RecordLists(PullRecords) : args = CalcArgs("pulls", l, <<>>)
     \/ \E l \in RecordLists(IssueRecords) : args = CalcArgs("issues", l, <<>>)
     \/ \E l \in RecordLists(ConclusionRecords) : args = CalcArgs("runs", l, <<>>)
     \/ \E l \in RecordLists(ChangeRecords), ds \in DeploymentLists :
          args = CalcArgs("changes", l, ds)
     \/ \E l \in RecordLists(IncidentRecords) : args = CalcArgs("incidents", l, <<>>)
     \/ args \in ScenarioC

\* calculateLeadTime
CallCalculateLeadTime ==
  /\ args.kind = "pulls"
  /\ op' = <<"calculateLeadTime", NoStr>>
  /\ ret' = calculateLeadTime(args.list)
  /\ UNCHANGED <<now, tz, args, snVars, dashVars>>

\* calculateMTTR
CallCalculateMTTR ==
  /\ args.kind = "issues"
  /\ op' = <<"calculateMTTR", NoStr>>
  /\ ret' = calculateMTTR(args.list)
  /\ UNCHANGED <<now, tz, args, snVars, dashVars>>

\* calculateChangeFailureRateSummary
CallCalculateChangeFailureRateSummary ==
  /\ args.kind = "runs"
  /\ op' = <<"calculateChangeFailureRateSummary", NoStr>>
  /\ ret' = calculateChangeFailureRateSummary(args.list)
  /\ UNCHANGED <<now, tz, args, snVars, dashVars>>

\* calculateLeadTimeHours
CallCalculateLeadTimeHours ==
  /\ args.kind = "changes"
  /\ op' = <<"calculateLeadTimeHours", NoStr>>
  /\ ret' = calculateLeadTimeHours(args.list, args.deployments)
  /\ UNCHANGED <<now, tz, args, snVars, dashVars>>

\* calculateChangeFailureRatePercent
CallCalculateChangeFailureRatePercent ==
  /\ args.kind = "changes"
  /\ op' = <<"calculateChangeFailureRatePercent", NoStr>>
  /\ ret' = calculateChangeFailureRatePercent(args.list)
  /\ UNCHANGED <<now, tz, args, snVars, dashVars>>

\* calculateMTTRHours
CallCalculateMTTRHours ==
  /\ args.kind = "incidents"
  /\ op' = <<"calculateMTTRHours", NoStr>>
  /\ ret' = calculateMTTRHours(args.list)
  /\ UNCHANGED <<now, tz, args, snVars, dashVars>>

NextCalc ==
  \/ CallCalculateLeadTime
  \/ CallCalculateMTTR
  \/ CallCalculateChangeFailureRateSummary
  \/ CallCalculateLeadTimeHours
  \/ CallCalculateChangeFailureRatePercent
  \/ CallCalculateMTTRHours

SpecCalc == InitCalc /\ [][NextCalc]_vars

(***************************************************************************)
(* Claims about the calculators, checked under SpecCalc.                   *)
(***************************************************************************)
LeadTimeCall == op[1] \in {"calculateLeadTime", "calculateLeadTimeHours"}
MTTRCall == op[1] \in {"calculateMTTR", "calculateMTTRHours"}
CFRCall == op[1] \in {"calculateChangeFailureRateSummary", "calculateChangeFailureRatePercent"}

\* the resolution timestamp of a change, whichever vendor it comes from
ResolvedAt(c) == IF args.kind = "pulls" THEN c.merged_at ELSE c.implemented_on
HasResolution(c) == ResolvedAt(c).tag \in {"ok", "bad"}

SameNumber(a, b) == (IsNaN(a) /\ IsNaN(b)) \/ NumEq(a, b)

\* the lead time of the call's calculator over another list of changes
LeadTimeOver(changes) ==
  IF op[1] = "calculateLeadTime" THEN calculateLeadTime(changes)
  ELSE calculateLeadTimeHours(changes, args.deployments)

\* Scenario B of the specification: one change resolved after 24 h and one
\* unresolved change
IsScenarioB ==
  /\ Len(args.list) = 2
  /\ \E i, j \in 1..2 :
       /\ ResolvedAt(args.list[i]) = Ts(Created + 24)
       /\ ResolvedAt(args.list[j]) = TsNull

\* C4: a change with no resolution timestamp is excluded from the lead-time
\* mean (it adds nothing to the sum and is not counted in the divisor), so
\* one 24 h change and one unresolved change give 24; with no eligible
\* change the summary is 0.  (Stated for inputs without clock skew, which is
\* C5's case.)
\* every resolution timestamp present is parseable and not before creation
CreatedAt(c) == IF args.kind = "pulls" THEN c.created_at ELSE c.sys_created_on
NoSkew ==
  \A i \in DOMAIN args.list :
     HasResolution(args.list[i]) =>
       /\ ResolvedAt(args.list[i]).tag = "ok"
       /\ ResolvedAt(args.list[i]).h >= CreatedAt(args.list[i]).h

C4_UnresolvedChangeExcluded ==
  (LeadTimeCall /\ NoSkew) =>
    /\ SameNumber(ret, LeadTimeOver(SelectSeq(args.list, HasResolution)))
    /\ IsScenarioB => NumEq(ret, Num(24))
    /\ SelectSeq(args.list, HasResolution) = <<>> => NumEq(ret, Num(0))

\* C5: the lead-time summary and the MTTR summary are never negative.
C5_SummariesNonNegative ==
  (LeadTimeCall \/ MTTRCall) => (Finite(ret) => ret.n >= 0)

\* the incidents of the call's input: for GitHub the issues that carry an
\* incident label, for ServiceNow every record
OpenedAt(inc) == IF args.kind = "issues" THEN inc.created_at ELSE inc.opened_at
IsIncident(inc) ==
  args.kind = "issues" =>
    \E i \in DOMAIN inc.labels : Includes(ToLowerCase(inc.labels[i]), INCIDENT)

EligibleIncidents ==
  {i \in DOMAIN args.list :
     /\ IsIncident(args.list[i])
     /\ OpenedAt(args.list[i]).tag = "ok"
     /\ args.list[i].closed_at.tag = "ok"
     /\ args.list[i].closed_at.h >= OpenedAt(args.list[i]).h}

RECURSIVE SumDurations(_)
SumDurations(S) ==
  IF S = {} THEN 0
  ELSE LET i == CHOOSE x \in S : TRUE
       IN (args.list[i].closed_at.h - OpenedAt(args.list[i]).h) + SumDurations(S \ {i})

\* C6: the MTTR summary is the arithmetic mean of closedAt - openedAt in
\* hours over exactly the incidents with both timestamps and a non-negative
\* duration, and 0 when there is none.
C6_MTTRIsMeanOfEligible ==
  MTTRCall =>
    IF EligibleIncidents = {} THEN NumEq(ret, Num(0))
    ELSE NumEq(ret, [n |-> SumDurations(EligibleIncidents), d |-> Cardinality(EligibleIncidents)])

\* C7: the change-failure-rate summary lies in [0, 100], and is 0 for an
\* empty list.
C7_FailureRateWithinBounds ==
  CFRCall =>
    /\ Finite(ret)
    /\ 0 <= ret.n /\ ret.n <= 100 * ret.d
    /\ args.list = <<>> => ret.n = 0

\* a rate of exactly 100 has been computed from two or more changes
C7_Witness ==
  /\ CFRCall
  /\ Len(args.list) >= 2
  /\ NumEq(ret, Num(100))

\* the outcome of a record: Failure when its conclusion or result string
\* contains "fail" in any letter case
OutcomeString(rec) == IF args.kind = "runs" THEN rec.conclusion ELSE rec.result
IsFailureOutcome(rec) == Includes(ToLowerCase(OutcomeString(rec)), FAIL)
Failures == {i \in DOMAIN args.list : IsFailureOutcome(args.list[i])}

\* the outcome strings are the plain tokens of the vendors
PlainOutcomes ==
  \A i \in DOMAIN args.list :
     OutcomeString(args.list[i]) \in {SUCCESS, FAILURE, CANCELLED, NoStr, SUCCESSFUL, FAILED, FAILED_CAP}

C21_FailSubstringIsFailure ==
  CFRCall =>
    /\ (Failures # {}) <=> (Finite(ret) /\ ret.n > 0)
    /\ (args.list # <<>> /\ Failures = DOMAIN args.list) <=> NumEq(ret, Num(100))

\* the same statement for the ServiceNow calculator alone: it holds
C21_ServiceNowClassification ==
  op[1] = "calculateChangeFailureRatePercent" =>
    /\ (Failures # {}) <=> (Finite(ret) /\ ret.n > 0)
    /\ (args.list # <<>> /\ Failures = DOMAIN args.list) <=> NumEq(ret, Num(100))

\* C18: every numeric field of a metrics result is finite: no calculator
\* yields NaN or Infinity as a summary, whatever the timestamps of its input
C18_CalculatorResultsFinite ==
  (LeadTimeCall \/ MTTRCall \/ CFRCall) => Finite(ret)

(***************************************************************************)
(* The ServiceNow route: generateMockData and GET /metrics.                *)
(***************************************************************************)
\* Math.random() < 0.4 ? 0 : Math.floor(Math.random() * 2) + 1 is at most 2
MaxPerDay == 2

\* date.setHours(h): the local calendar day kept, the local hour set to h
SetHours(z, t, h) ==
  UTCOfLocal(z, LocalTime(z, t) - (LocalTime(z, t) % HoursPerDay) + h)

\* date.setHours(date.getHours() + k)
AddHours(z, t, k) == UTCOfLocal(z, LocalTime(z, t) + k)

\* The outcomes of Math.random() in one call, bounded to the extremes of each
\* range: per day up to MaxPerDay deployments, each at local hour 1 or 20,
\* succeeding, failing, or failing with an incident; the hours a change was
\* created before its deployment (6..77); the hours an extra incident stays
\* open (2..73).
DeploymentDraws == [hour : {1, 20}, outcome : {"success", "failure", "incident"}]
DayDraws == UNION {[1..n -> DeploymentDraws] : n \in 0..MaxPerDay}
MockDraws(days) ==
  [perDay : [1..days -> DayDraws], leadHours : {6, 77}, extraHours : {2, 73}]

\* the instant of deployment j of day i (both 1-based here)
MockDeployTime(z, today, days, draw, i, j) ==
  SetHours(z, SetDateBack(z, today, days - i), draw.perDay[i][j].hour)

MockSlots(days, draw) ==
  {<<i, j>> \in (1..days) \X (1..MaxPerDay) : j <= Len(draw.perDay[i])}

\* a set of <<i, j>> slots as a sequence in the order of the loops
RECURSIVE SlotSeq(_)
SlotSeq(S) ==
  IF S = {} THEN <<>>
  ELSE LET m == CHOOSE x \in S :
                  \A y \in S : x[1] < y[1] \/ (x[1] = y[1] /\ x[2] <= y[2])
       IN <<m>> \o SlotSeq(S \ {m})

generateMockData(z, today, days, draw) ==
  LET slots == SlotSeq(MockSlots(days, draw))
      t(k) == MockDeployTime(z, today, days, draw, slots[k][1], slots[k][2])
      success(k) == draw.perDay[slots[k][1]][slots[k][2]].outcome = "success"
      failed == SelectSeq(slots, LAMBDA sl : draw.perDay[sl[1]][sl[2]].outcome = "incident")
      opened(k) == AddHours(z, MockDeployTime(z, today, days, draw, failed[k][1], failed[k][2]), 1)
      extraOpened == SetHours(z, today, 0)
  IN [deployments |->
        [k \in DOMAIN slots |->
           [sys_id |-> <<"dep", slots[k][1] - 1, slots[k][2] - 1>>,
            deploy_time |-> Ts(t(k)),
            status |-> IF success(k) THEN SUCCESS ELSE FAILURE]],
      changes |->
        [k \in DOMAIN slots |->
           [sys_id |-> <<"cr", slots[k][1] - 1, slots[k][2] - 1>>,
            sys_created_on |-> Ts(AddHours(z, t(k), 0 - draw.leadHours)),
            implemented_on |-> IF success(k) THEN Ts(t(k)) ELSE TsNull,
            result |-> IF success(k) THEN SUCCESSFUL ELSE FAILED]],
      incidents |->
        [k \in DOMAIN failed |->
           [opened_at |-> Ts(opened(k)), closed_at |-> Ts(AddHours(z, opened(k), 1))]]
        \o [k \in 1..3 |->
              [opened_at |-> Ts(extraOpened),
               closed_at |-> Ts(AddHours(z, extraOpened, draw.extraHours))]]]

\* Number(x.toFixed(2)) for x >= 0
ToFixed2(x) == IF IsNaN(x) THEN NaN ELSE [n |-> (200 * x.n + x.d) \div (2 * x.d), d |-> 100]


\* router.get('/metrics') of the ServiceNow route, days = Number(req.query.days || 30)
ServiceNowMetrics(z, today, days, draw) ==
  LET data == generateMockData(z, today, days, draw)
      built == buildDeploymentSeriesFromDeployments(z, today, data.deployments, days)
      leadTime == calculateLeadTimeHours(data.changes, data.deployments)
      changeFailureRate == calculateChangeFailureRatePercent(data.changes)
      mttr == calculateMTTRHours(data.incidents)
  IN IF built.threw THEN [status |-> 500]
     ELSE [status |-> 200,
           deployment_frequency |-> built.series,
           deployment_frequency_summary |-> [value |-> Num(built.total), unit |-> TOTAL_DEPLOYMENTS],
           lead_time |-> [value |-> ToFixed2(leadTime), unit |-> HOURS],
           change_failure_rate |-> [value |-> ToFixed2(changeFailureRate), unit |-> PERCENT],
           mean_time_to_recovery |-> [value |-> ToFixed2(mttr), unit |-> HOURS]]

InitServiceNow ==
  /\ now \in NowSet
  /\ tz \in TimeZones
  /\ op = NoOp /\ ret = NoRet /\ args = CalcArgs("none", <<>>, <<>>)
  /\ snReq = NoReq /\ snResp = NoResp /\ ghResp = NoResp
  /\ gh = EmptyRepo /\ DashboardInit

\* a client sends GET /api/servicenow/metrics?days=N
SnSendMetricsRequest ==
  /\ ~snReq.sent
  /\ \E days \in (0 - 1)..MaxSnDays : snReq' = [sent |-> TRUE, days |-> days]
  /\ UNCHANGED <<now, tz, op, args, ret, snResp, ghResp, dashVars>>

\* the handler runs and answers
SnGetMetrics ==
  /\ snReq.sent /\ snResp.status = 0
  /\ \E draw \in MockDraws(snReq.days) :
       snResp' = ServiceNowMetrics(tz, now, snReq.days, draw)
  /\ UNCHANGED <<now, tz, op, args, ret, snReq, ghResp, dashVars>>

\* the client takes the response
SnReceiveMetrics ==
  /\ snResp.status # 0
  /\ snReq' = NoReq /\ snResp' = NoResp
  /\ UNCHANGED <<now, tz, op, args, ret, ghResp, dashVars>>

NextServiceNow == SnSendMetricsRequest \/ SnGetMetrics \/ SnReceiveMetrics

SpecServiceNow == InitServiceNow /\ [][NextServiceNow]_vars

RECURSIVE SumValues(_)
SumValues(series) ==
  IF series = <<>> THEN 0 ELSE Head(series).value + SumValues(Tail(series))

\* C2 (ServiceNow /metrics): in every metrics result the deployment-frequency
\* summary value equals the sum of the values of the deployment-frequency
\* series divided by windowDays.
C2_SummaryIsSeriesSumOverWindow ==
  (snResp.status = 200 /\ snReq.days >= 1) =>
    NumEq(snResp.deployment_frequency_summary.value,
          [n |-> SumValues(snResp.deployment_frequency), d |-> snReq.days])

(***************************************************************************)
(* The GitHub route: GET /metrics (backend/routes/github.js).              *)
(***************************************************************************)
DaysWindow == 30

\* x || null for a raw timestamp
OrNull(raw) == IF Truthy(raw) THEN raw ELSE TsNull

Min(a, b) == IF a <= b THEN a ELSE b

\* one page of the upstream list of workflow runs (newest first)
PageOf(upstreamRuns, page) ==
  SubSeq(upstreamRuns, (page - 1) * PerPage + 1, Min(page * PerPage, Len(upstreamRuns)))

\* a variant of the loop that keeps only the runs created after the cutoff
RECURSIVE FetchPagesAfterCutoff(_, _, _, _)
FetchPagesAfterCutoff(upstreamRuns, cutoff, page, results) ==
  LET runs == PageOf(upstreamRuns, page)
      recent == SelectSeq(runs, LAMBDA r : NewDate(OrNull(r.created_at)).valid
                                            /\ NewDate(OrNull(r.created_at)).t > cutoff)
      oldestDate == NewDate(OrNull(runs[Len(runs)].created_at))
  IN IF Len(runs) = 0 THEN [results |-> results, page |-> page]
     ELSE IF oldestDate.valid /\ oldestDate.t < cutoff
       THEN [results |-> results \o recent, page |-> page]
     ELSE FetchPagesAfterCutoff(upstreamRuns, cutoff, page + 1, results \o recent)

\* the while (true) loop of fetchWorkflowRunsLastNDays: the results, and the
\* last page it requested
RECURSIVE FetchPages(_, _, _, _)
FetchPages(upstreamRuns, cutoff, page, results) ==
  LET runs == PageOf(upstreamRuns, page)
      recent == SelectSeq(runs, LAMBDA r : NewDate(OrNull(r.created_at)).valid
                                            /\ NewDate(OrNull(r.created_at)).t >= cutoff)
      oldestDate == NewDate(OrNull(runs[Len(runs)].created_at))
  IN IF Len(runs) = 0 THEN [results |-> results, page |-> page]
     ELSE IF oldestDate.valid /\ oldestDate.t < cutoff
       THEN [results |-> results \o recent, page |-> page]
     ELSE FetchPages(upstreamRuns, cutoff, page + 1, results \o recent)

fetchWorkflowRunsLastNDays(z, today, upstreamRuns, days) ==
  FetchPages(upstreamRuns, SetDateBack(z, today, days), 1, <<>>).results

(***************************************************************************)
(* fetchWorkflowRunsLastNDays over an upstream list served in pages.       *)
(***************************************************************************)
\* the creation instants of the upstream runs: the instant of the request
\* and each whole number of days before it, and the hour before each
UpstreamHours(today) ==
  {today - d * HoursPerDay - e : d \in 0..MaxDays, e \in {0, 1}}

\* the upstream lists: up to MaxUpstream runs, newest first
UpstreamLists(today) ==
  {l \in UNION {[1..n -> {Raw(SUCCESS, Ts(h), TsUndef, TsUndef, TsUndef) :
                            h \in UpstreamHours(today)}] : n \in 0..MaxUpstream} :
     \A i \in 1..(Len(l) - 1) : l[i].created_at.h >= l[i + 1].created_at.h}

InitFetch ==
  /\ now = BaseHour + 12
  /\ tz \in TimeZones
  /\ op = NoOp /\ ret = NoRet
  /\ snReq = NoReq /\ snResp = NoResp /\ ghResp = NoResp
  /\ gh = EmptyRepo /\ DashboardInit
  /\ \E days \in 1..MaxDays, l \in UpstreamLists(now) :
       args = [kind |-> "upstream", list |-> l, days |-> days, deployments |-> <<>>]

\* fetchWorkflowRunsLastNDays(OWNER, REPO, days)
CallFetchWorkflowRunsLastNDays ==
  /\ args.kind = "upstream"
  /\ op[1] = "none"
  /\ op' = <<"fetchWorkflowRunsLastNDays", NoStr>>
  /\ LET fetched == FetchPages(args.list, SetDateBack(tz, now, args.days), 1, <<>>)
     IN ret' = [threw |-> FALSE, series |-> <<>>,
                results |-> fetched.results, page |-> fetched.page]
  /\ UNCHANGED <<now, tz, args, snVars, dashVars>>

NextFetch == CallFetchWorkflowRunsLastNDays

SpecFetch == InitFetch /\ [][NextFetch]_vars

\* the cutoff of the call, and whether a page ends the paging: it is empty
\* or its last run is older than the cutoff
Cutoff == SetDateBack(tz, now, args.days)
EndsPaging(page) ==
  \/ PageOf(args.list, page) = <<>>
  \/ PageOf(args.list, page)[Len(PageOf(args.list, page))].created_at.h < Cutoff

\* C30: for a finite upstream list sorted newest first and served in pages,
\* fetchWorkflowRunsLastNDays terminates, requests no page after the first
\* page that is empty or whose last run is older than the cutoff, and
\* returns exactly the runs created at or after the cutoff, in their order
C30_FetchStopsAndKeepsRecentRuns ==
  op[1] = "fetchWorkflowRunsLastNDays" =>
    /\ EndsPaging(ret.page)
    /\ \A page \in 1..(ret.page - 1) : ~EndsPaging(page)
    /\ ret.results = SelectSeq(args.list, LAMBDA run : run.created_at.h >= Cutoff)

\* the paging has stopped on the first of several pages, with a run created
\* at the cutoff among the results
C30_Witness ==
  /\ op[1] = "fetchWorkflowRunsLastNDays"
  /\ ret.page = 1 /\ Len(args.list) > PerPage
  /\ \E i \in DOMAIN ret.results : ret.results[i].created_at.h = Cutoff

(***************************************************************************)
(* JSON values of a response body.  JSON.stringify writes NaN as null.     *)
(***************************************************************************)
JUndef == [t |-> "undef"]
JNull == [t |-> "null"]
JNum(x) == IF IsNaN(x) THEN JNull ELSE [t |-> "num", num |-> x]
JObj(value) == [t |-> "obj", value |-> value]
\* a {value, unit} object
JMetric(value, unit) == [t |-> "obj", value |-> value, unit |-> unit]
\* an array of {date, value} points, the values integers
JSeries(series) ==
  [t |-> "arr", items |-> [i \in DOMAIN series |->
                             [date |-> series[i].date, value |-> JNum(Num(series[i].value)),
                              count |-> JUndef]]]

\* a body with none of the keys the Dashboard reads
EmptyBody ==
  [deployment_frequency |-> JUndef, deployment_frequency_summary |-> JUndef,
   lead_time |-> JUndef, change_failure_rate |-> JUndef,
   change_failure_rate_summary |-> JUndef, mean_time_to_recovery |-> JUndef,
   deploymentFrequency |-> JUndef, leadTime |-> JUndef, changeFailureRate |-> JUndef,
   mttr |-> JUndef]

\* router.get("/metrics"): `failed` is the failure of any of its upstream requests
GithubMetrics(z, today, upstream, failed) ==
  LET workflowRuns == fetchWorkflowRunsLastNDays(z, today, upstream.runs, DaysWindow)
      deploymentResult == buildDeploymentSeries(z, today, workflowRuns, DaysWindow, SUCCESS)
      deploymentFrequency == [n |-> deploymentResult.total, d |-> DaysWindow]
      leadTime == calculateLeadTime(upstream.pulls)
      changeFailureRate == buildDeploymentSeries(z, today, workflowRuns, DaysWindow, FAILURE)
      changeFailureRateSummary == calculateChangeFailureRateSummary(workflowRuns)
      mttr == calculateMTTR(upstream.issues)
  IN IF failed \/ (deploymentResult.threw \/ changeFailureRate.threw)
     THEN [status |-> 500, body |-> EmptyBody]
     ELSE [status |-> 200,
           body |-> [EmptyBody EXCEPT
             !.deployment_frequency = JSeries(deploymentResult.series),
             !.deployment_frequency_summary = JMetric(JNum(deploymentFrequency), DEPLOYMENTS_PER_DAY),
             !.lead_time = JMetric(JNum(leadTime), HOURS),
             !.change_failure_rate = JSeries(changeFailureRate.series),
             !.change_failure_rate_summary = JMetric(JNum(changeFailureRateSummary), PERCENT),
             !.mean_time_to_recovery = JMetric(JNum(mttr), HOURS)]]

\* the repositories behind the GitHub route: up to one workflow run, pull
\* request and issue of every kind, and the repository of the Dashboard
\* a run created 30 days before the day of the request, at 20:00
RunsThirtyDaysBack ==
  {Raw(c, Ts(BaseHour - DaysWindow * HoursPerDay + 20), TsUndef, TsUndef, TsUndef) :
     c \in {SUCCESS, FAILURE}}

GithubRepos ==
  {[runs |-> r, pulls |-> p, issues |-> i] :
     r \in {<<>>} \cup {<<x>> : x \in RunRecords \cup RunsThirtyDaysBack},
     p \in {<<>>} \cup {<<x>> : x \in PullRecords},
     i \in {<<>>} \cup {<<x>> : x \in IssueRecords}}

InitGithub ==
  /\ now = BaseHour + 12
  /\ tz \in {z \in TimeZones : z.delta <= 0}
  /\ op = NoOp /\ ret = NoRet /\ args = CalcArgs("none", <<>>, <<>>)
  /\ snReq = NoReq /\ snResp = NoResp /\ ghResp = NoResp
  /\ gh \in GithubRepos
  /\ DashboardInit

\* GET /api/data-sources/metrics: the handler runs and answers; any of its
\* three upstream requests may fail
GhGetMetrics ==
  /\ ghResp.status = 0
  /\ \E failed \in BOOLEAN : ghResp' = GithubMetrics(tz, now, gh, failed)
  /\ UNCHANGED <<now, tz, op, args, ret, snReq, snResp, dashVars>>

\* the client takes the response
GhReceiveMetrics ==
  /\ ghResp.status # 0
  /\ ghResp' = NoResp
  /\ UNCHANGED <<now, tz, op, args, ret, snReq, snResp, dashVars>>

NextGithub == GhGetMetrics \/ GhReceiveMetrics

SpecGithub == InitGithub /\ [][NextGithub]_vars

(***************************************************************************)
(* Dashboard.js: fetchMetrics.                                             *)
(***************************************************************************)
\* a JavaScript number held in memory (it may be NaN)
VNum(x) == [t |-> "num", num |-> x]

Nullish(v) == v.t \in {"null", "undef"}

\* a ?? b
Coalesce(a, b) == IF Nullish(a) THEN b ELSE a

\* v?.value
PropValue(v) == IF v.t = "obj" THEN v.value ELSE JUndef

\* Number(v): the items of an array are objects, so only the empty array
\* converts to a number
NumberOf(v) ==
  CASE v.t = "num" -> v.num
    [] v.t = "null" -> Num(0)
    [] v.t = "arr" -> IF Len(v.items) = 0 THEN Num(0) ELSE NaN
    [] OTHER -> NaN

\* a variant with ?? in place of ||: NaN and 0 are not nullish
OrElseNullish(n, fallback) == n

\* n || fallback
OrElse(n, fallback) == IF IsNaN(n) \/ n.n = 0 THEN fallback ELSE n

toNumber(v, fallback) ==
  IF Nullish(v) THEN fallback
  ELSE IF v.t = "obj"
    THEN OrElse(NumberOf(IF Nullish(v.value) THEN VNum(fallback) ELSE v.value), fallback)
  ELSE IF v.t = "arr" THEN OrElse(NumberOf(v), fallback)
  ELSE IF IsNaN(v.num) THEN fallback ELSE v.num

Max(a, b) == IF a >= b THEN a ELSE b

\* const ds = dataSourcesOverride ?? dataSources
ResolveDs(override, closure) ==
  IF override.k \in {"undef", "null"} THEN [k |-> "list", list |-> closure] ELSE override

\* !!ds?.length: a click event has no length
HasLength(ds) == ds.k = "list" /\ Len(ds.list) > 0

SeriesValues(series) == [i \in DOMAIN series |-> series[i].value]

\* the deployment series and summary value of the try block
PrimaryDeployment(body, ds) ==
  LET mapped == [i \in DOMAIN body.deployment_frequency.items |->
                   [date |-> body.deployment_frequency.items[i].date,
                    value |-> toNumber(body.deployment_frequency.items[i].value, Num(0))]]
      total == SumNums(SeriesValues(mapped))
  IN IF ~HasLength(ds)
       THEN [series |-> sampleDeploymentFrequency,
             value |-> defaultMetrics.deployment_frequency.value]
     ELSE IF body.deployment_frequency.t = "arr"
       THEN [series |-> mapped, value |-> DivInt(total, Max(Len(mapped), 1))]
     ELSE IF body.deployment_frequency_summary.t = "obj"
             /\ body.deployment_frequency_summary.value.t # "undef"
       THEN [series |-> sampleDeploymentFrequency,
             value |-> toNumber(body.deployment_frequency_summary.value,
                                defaultMetrics.deployment_frequency.value)]
     ELSE IF body.deployment_frequency.t = "num"
       THEN [series |-> sampleDeploymentFrequency,
             value |-> toNumber(body.deployment_frequency, defaultMetrics.deployment_frequency.value)]
     ELSE [series |-> sampleDeploymentFrequency,
           value |-> defaultMetrics.deployment_frequency.value]

\* the argument of setMetrics in the try block
PrimaryMetrics(body, ds) ==
  [deployment_frequency |->
     Metric(toNumber(VNum(PrimaryDeployment(body, ds).value),
                     defaultMetrics.deployment_frequency.value), DEPLOYMENTS_PER_DAY),
   lead_time |->
     Metric(toNumber(Coalesce(PropValue(body.lead_time), body.lead_time),
                     defaultMetrics.lead_time.value), HOURS),
   change_failure_rate |->
     Metric(toNumber(Coalesce(PropValue(body.change_failure_rate), body.change_failure_rate),
                     defaultMetrics.change_failure_rate.value), PERCENT),
   mean_time_to_recovery |->
     Metric(toNumber(Coalesce(PropValue(body.mean_time_to_recovery),
                              body.mean_time_to_recovery),
                     defaultMetrics.mean_time_to_recovery.value), HOURS)]

\* the deployment series of the fallback
FallbackSeries(body) ==
  IF body.deployment_frequency.t = "arr"
    THEN [i \in DOMAIN body.deployment_frequency.items |->
            [date |-> body.deployment_frequency.items[i].date,
             value |-> toNumber(body.deployment_frequency.items[i].value, Num(0))]]
  ELSE IF body.deploymentFrequency.t = "arr"
    THEN [i \in DOMAIN body.deploymentFrequency.items |->
            [date |-> body.deploymentFrequency.items[i].date,
             value |-> toNumber(Coalesce(body.deploymentFrequency.items[i].value,
                                  Coalesce(body.deploymentFrequency.items[i].count,
                                           VNum(Num(0)))), Num(0))]]
  ELSE sampleDeploymentFrequency

\* the metrics the fallback builds from the answer of the alternate endpoint
FallbackMetrics(body) ==
  [deployment_frequency |->
     Metric(toNumber(Coalesce(body.deploymentFrequency,
                       Coalesce(body.deployment_frequency_summary, VNum(Num(0)))), Num(0)),
            DEPLOYMENTS_PER_DAY),
   lead_time |->
     Metric(toNumber(Coalesce(body.leadTime, Coalesce(body.lead_time, VNum(Num(0)))), Num(0)),
            HOURS),
   change_failure_rate |->
     Metric(toNumber(Coalesce(body.changeFailureRate,
                       Coalesce(body.change_failure_rate, VNum(Num(0)))), Num(0)),
            PERCENT),
   mean_time_to_recovery |->
     Metric(toNumber(Coalesce(body.mttr, Coalesce(body.mean_time_to_recovery, VNum(Num(0)))),
                     Num(0)),
            HOURS)]

\* the final fallback
mockData ==
  [deployment_frequency |-> Metric(Rat(1, 2), DEPLOYMENTS_PER_DAY),
   lead_time |-> Metric(Num(48), HOURS),
   change_failure_rate |-> Metric(Num(15), PERCENT),
   mean_time_to_recovery |-> Metric(Num(36), HOURS)]

(***************************************************************************)
(* The Dashboard and its backend.  The repository holds two workflow runs  *)
(* in the window and one before it (three runs make two pages), a merged   *)
(* and an unmerged pull request and a closed incident; or nothing.         *)
(***************************************************************************)
ActiveRepo ==
  [runs |-> <<Raw(SUCCESS, Ts(BaseHour + 5), TsUndef, TsUndef, TsUndef),
              Raw(FAILURE, Ts(BaseHour - HoursPerDay), TsUndef, TsUndef, TsUndef),
              Raw(SUCCESS, Ts(BaseHour - 40 * HoursPerDay), TsUndef, TsUndef, TsUndef)>>,
   pulls |-> <<[created_at |-> Ts(Created), merged_at |-> Ts(Created + 24)],
               [created_at |-> Ts(Created), merged_at |-> TsNull]>>,
   issues |-> <<[labels |-> <<INCIDENT>>, state |-> CLOSED,
                 created_at |-> Ts(Created), closed_at |-> Ts(Created + 6)]>>]

Repositories == {EmptyRepo, ActiveRepo}

\* the host zones of the backend: UTC, and the zone whose clocks went back
DashboardZones == {z \in TimeZones : z.o1 \in {0, 0 - 4}}

\* the answers of GET /data-sources: this repository's router answers [],
\* another backend behind REACT_APP_BACKEND_URL may list a source
DataSourceLists == {<<>>, <<"github">>}

\* the answers of GET /metrics/github, which this repository does not serve:
\* a body of the shape of GET /data-sources/metrics, or one with the
\* camel-case keys the fallback reads
CamelBody ==
  [EmptyBody EXCEPT
     !.deploymentFrequency =
        [t |-> "arr", items |-> <<[date |-> BaseDay, value |-> JUndef, count |-> JNum(Num(2))]>>],
     !.leadTime = JNum(Num(12)),
     !.changeFailureRate = JObj(JNum(Num(10))),
     !.mttr = JNull]

\* the instant of the Dashboard's session
SessionHour == BaseHour + 12

\* the answer of GET /data-sources/metrics at that instant, for each host
\* zone and repository: the clock, the zone and the repository do not change
\* during the session, so the handler's answer is computed once
MetricsAnswer ==
  [z \in DashboardZones |->
     [g \in Repositories |-> GithubMetrics(z, SessionHour, g, FALSE)]]

AlternateBodies == {MetricsAnswer[tz][gh].body, CamelBody}

Init ==
  /\ now = SessionHour
  /\ tz \in DashboardZones
  /\ op = NoOp
  /\ args = CalcArgs("none", <<>>, <<>>)
  /\ ret = NoRet
  /\ snReq = NoReq /\ snResp = NoResp /\ ghResp = NoResp
  /\ gh \in Repositories
  /\ DashboardInit

Free(r) == calls[r].pc = "idle"
SomeFree == \E r \in RunIds : Free(r)
FreeSlot == CHOOSE r \in RunIds : Free(r) /\ \A q \in RunIds : Free(q) => r <= q

\* fetchMetrics up to its first await: setLoading(true) and the request; ds
\* depends on the argument and on the dataSources of the render that made
\* this fetchMetrics, so it is fixed from here on
StartFetch(override, closure) ==
  /\ SomeFree
  /\ calls' = [q \in RunIds |->
                 IF q = FreeSlot
                 THEN [pc |-> "primary", ds |-> ResolveDs(override, closure),
                       pending |-> defaultMetrics, requests |-> <<GET_PRIMARY>>,
                       newest |-> TRUE]
                 ELSE [calls[q] EXCEPT !.newest = FALSE]]
  /\ loading' = TRUE

\* useEffect: initializeData calls fetchMetrics()
Mount ==
  /\ ~mounted
  /\ mounted' = TRUE
  /\ StartFetch(NoOverride, dataSources)
  /\ console' = <<>>
  /\ UNCHANGED <<now, tz, op, args, ret, snVars, detailsView, gh, metrics, metricHistory, dataSources,
                 creating>>

\* setInterval(fetchMetrics, 300000): the fetchMetrics of the first render
IntervalFires ==
  /\ mounted
  /\ StartFetch(NoOverride, <<>>)
  /\ console' = <<>>
  /\ UNCHANGED <<now, tz, op, args, ret, snVars, detailsView, gh, mounted, metrics, metricHistory,
                 dataSources, creating>>

\* the Refresh button: onClick={fetchMetrics}, disabled while loading
ClickRefresh ==
  /\ mounted /\ ~loading
  /\ StartFetch([k |-> "event", list |-> <<>>], dataSources)
  /\ console' = <<>>
  /\ UNCHANGED <<now, tz, op, args, ret, snVars, detailsView, gh, mounted, metrics, metricHistory,
                 dataSources, creating>>

\* handleCreateDataSource, after its validation, posts the new source
CreateDataSource ==
  /\ mounted /\ creating.pc = "idle"
  /\ creating' = [pc |-> "post", closure |-> dataSources]
  /\ console' = <<>>
  /\ UNCHANGED <<now, tz, op, args, ret, snVars, detailsView, gh, mounted, metrics, metricHistory,
                 dataSources, loading, calls>>

\* the POST is answered: on 200 or 201 fetchDataSources sends its GET
PostAnswered ==
  /\ creating.pc = "post"
  /\ \E ok \in BOOLEAN :
       /\ creating' = [creating EXCEPT !.pc = IF ok THEN "list" ELSE "idle"]
       /\ console' = IF ok THEN <<>>
                     ELSE <<"Failed to create data source:",
                            "Failed to configure GitHub data source">>
  /\ UNCHANGED <<now, tz, op, args, ret, snVars, detailsView, gh, mounted, metrics, metricHistory,
                 dataSources, loading, calls>>

\* fetchDataSources resolves with the list, or with null after a failure;
\* handleCreateDataSource then calls fetchMetrics(ds)
DataSourcesAnswered ==
  /\ creating.pc = "list"
  /\ \/ \E list \in DataSourceLists :
          /\ dataSources' = list
          /\ console' = <<>>
          /\ StartFetch([k |-> "list", list |-> list], creating.closure)
     \/ /\ dataSources' = dataSources
        /\ console' = <<"Failed to fetch data sources:", "Failed to fetch data sources">>
        /\ StartFetch([k |-> "null", list |-> <<>>], creating.closure)
  /\ creating' = [pc |-> "idle", closure |-> <<>>]
  /\ UNCHANGED <<now, tz, op, args, ret, snVars, detailsView, gh, mounted, metrics, metricHistory>>

\* a variant without the finally block: the call is never marked finished
FinishWithoutFinally(r) ==
  /\ calls' = calls
  /\ loading' = loading

\* finally: setLoading(false)
Finish(r) ==
  /\ calls' = [calls EXCEPT ![r] = IdleRun]
  /\ loading' = FALSE

\* what the try block stores from the answer of each host zone and
\* repository, by whether ds has a length (the one use the block makes of
\* ds); computed once, like the answer
TryBlockResult ==
  [z \in DashboardZones |->
     [g \in Repositories |->
        [hasLength \in BOOLEAN |->
           LET ds == IF hasLength THEN [k |-> "list", list |-> <<"github">>] ELSE NoDs
           IN [series |-> PrimaryDeployment(MetricsAnswer[z][g].body, ds).series,
               metrics |-> PrimaryMetrics(MetricsAnswer[z][g].body, ds)]]]]

\* GET /data-sources/metrics is answered 200: the rest of the try block
PrimaryResolves(r) ==
  /\ calls[r].pc = "primary"
  /\ MetricsAnswer[tz][gh].status = 200
  /\ metricHistory' = TryBlockResult[tz][gh][HasLength(calls[r].ds)].series
  /\ metrics' = TryBlockResult[tz][gh][HasLength(calls[r].ds)].metrics
  /\ Finish(r)
  /\ console' = <<>>
  /\ UNCHANGED <<now, tz, op, args, ret, snVars, detailsView, gh, mounted, dataSources, creating>>

\* a variant that gives up after the first failure: no alternate request
PrimaryRejectsToDefaults(r) ==
  /\ calls[r].pc = "primary"
  /\ GithubMetrics(tz, now, gh, TRUE).status # 200
  /\ metrics' = mockData
  /\ Finish(r)
  /\ console' = <<>>
  /\ UNCHANGED <<now, tz, op, args, ret, snVars, detailsView, gh, mounted, metricHistory, dataSources,
                 creating>>

\* GET /data-sources/metrics fails (500 or no answer): the catch block sends
\* GET /metrics/github
PrimaryRejects(r) ==
  /\ calls[r].pc = "primary"
  /\ GithubMetrics(tz, now, gh, TRUE).status # 200
  /\ calls' = [calls EXCEPT ![r].pc = "alternate",
                             ![r].requests = Append(@, GET_ALTERNATE)]
  /\ console' = <<"Failed to fetch GitHub metrics:", "Failed to fetch metrics:",
                 "Failed to fetch DORA metrics">>
  /\ UNCHANGED <<now, tz, op, args, ret, snVars, detailsView, gh, mounted, metrics, metricHistory,
                 dataSources, loading, creating>>

\* GET /metrics/github is answered: setMetricHistory, then the 1 s delay
AlternateResolves(r) ==
  /\ calls[r].pc = "alternate"
  /\ \E body \in AlternateBodies :
       /\ metricHistory' = FallbackSeries(body)
       /\ calls' = [calls EXCEPT ![r].pc = "delay", ![r].pending = FallbackMetrics(body)]
  /\ console' = <<>>
  /\ UNCHANGED <<now, tz, op, args, ret, snVars, detailsView, gh, mounted, metrics, dataSources,
                 loading, creating>>

\* GET /metrics/github fails: the final fallback
AlternateRejects(r) ==
  /\ calls[r].pc = "alternate"
  /\ metrics' = mockData
  /\ Finish(r)
  /\ console' = <<"Failed to fetch metrics from backend:",
                 "Failed to fetch DORA metrics from Github">>
  /\ UNCHANGED <<now, tz, op, args, ret, snVars, detailsView, gh, mounted, metricHistory, dataSources,
                 creating>>

\* the delay elapses: setMetrics(githubMetrics)
DelayElapses(r) ==
  /\ calls[r].pc = "delay"
  /\ metrics' = calls[r].pending
  /\ Finish(r)
  /\ console' = <<>>
  /\ UNCHANGED <<now, tz, op, args, ret, snVars, detailsView, gh, mounted, metricHistory, dataSources,
                 creating>>

Next ==
  \/ Mount
  \/ IntervalFires
  \/ ClickRefresh
  \/ CreateDataSource
  \/ PostAnswered
  \/ DataSourcesAnswered
  \/ \E r \in RunIds : PrimaryResolves(r)
  \/ \E r \in RunIds : PrimaryRejects(r)
  \/ \E r \in RunIds : AlternateResolves(r)
  \/ \E r \in RunIds : AlternateRejects(r)
  \/ \E r \in RunIds : DelayElapses(r)

Spec == Init /\ [][Next]_vars

\* every HTTP request is eventually answered or fails, and the timer of the
\* delay eventually fires
RequestsAnswered ==
  \A r \in RunIds :
    /\ WF_vars(PrimaryResolves(r) \/ PrimaryRejects(r))
    /\ WF_vars(AlternateResolves(r) \/ AlternateRejects(r))
    /\ WF_vars(DelayElapses(r))

FairSpec == Spec /\ RequestsAnswered

(***************************************************************************)
(* MetricDetails (Dashboard.js): fetchDetails, run by the effect of the    *)
(* view.  `args` is the answer of the details endpoint: the deployments of *)
(* a ServiceNow source (kind "deployments") or the workflow runs of a      *)
(* GitHub source (kind "details"), and the days of the query.              *)
(***************************************************************************)
fetchVars == <<gh, mounted, metrics, metricHistory, dataSources, loading, calls, creating>>

\* the answers of the metrics endpoint: one with a deployment_frequency
\* series and one without
DetailsMetricsBodies == {MetricsAnswer[tz][ActiveRepo].body, EmptyBody}

FAILED_TO_FETCH_DETAILS == "Failed to fetch details"

\* the code after await Promise.all(...) and the finally block; its result
\* is the view and what it wrote to the console
AfterPromiseAll(view, body) ==
  LET canonical == body.deployment_frequency.t = "arr"
                     /\ Len(body.deployment_frequency.items) > 0
      mapped == [i \in DOMAIN body.deployment_frequency.items |->
                   [date |-> body.deployment_frequency.items[i].date,
                    value |-> IF body.deployment_frequency.items[i].value.t = "num"
                              THEN body.deployment_frequency.items[i].value.num
                              ELSE Num(0)]]
      built == buildSeriesFromDeployments(tz, now, args.list, args.days,
                                          DateFieldOf(args.kind, args.list))
  IN IF canonical
       THEN [view |-> [view EXCEPT !.pc = "done", !.loading = FALSE, !.series = mapped],
             console |-> <<>>]
     ELSE IF built.threw
       THEN [view |-> [view EXCEPT !.pc = "done", !.loading = FALSE, !.error = TRUE],
             console |-> <<FAILED_TO_FETCH_DETAILS>>]
     ELSE [view |-> [view EXCEPT !.pc = "done", !.loading = FALSE,
                       !.series = [i \in DOMAIN built.series |->
                                     [date |-> built.series[i].date,
                                      value |-> Num(built.series[i].value)]]],
           console |-> <<>>]

InitDetails ==
  /\ now = SessionHour
  /\ tz \in DashboardZones
  /\ op = NoOp /\ ret = NoRet
  /\ snReq = NoReq /\ snResp = NoResp /\ ghResp = NoResp
  /\ gh = EmptyRepo /\ DashboardInit
  /\ \E days \in 1..MaxDays :
       \/ \E l \in ListsOf(DeploymentRecords) :
            args = [kind |-> "deployments", list |-> l, days |-> days, deployments |-> <<>>]
       \/ \E l \in ListsOf(DetailRecords) :
            args = [kind |-> "details", list |-> l, days |-> days, deployments |-> <<>>]

\* the effect: fetchDetails up to await Promise.all([detailsPromise, metricsPromise])
DetailsMount ==
  /\ detailsView.pc = "unmounted"
  /\ detailsView' = [detailsView EXCEPT !.pc = "waiting", !.loading = TRUE, !.error = FALSE,
                                         !.detailsReq = "pending", !.metricsReq = "pending"]
  /\ console' = <<>>
  /\ UNCHANGED <<now, tz, op, args, ret, snVars, fetchVars>>

\* the details request is answered
DetailsResolve ==
  /\ detailsView.pc = "waiting" /\ detailsView.detailsReq = "pending"
  /\ LET view == [detailsView EXCEPT !.detailsReq = "resolved"]
     IN IF view.metricsReq = "pending"
        THEN detailsView' = view /\ console' = <<>>
        ELSE /\ detailsView' = AfterPromiseAll(view, view.metrics).view
             /\ console' = AfterPromiseAll(view, view.metrics).console
  /\ UNCHANGED <<now, tz, op, args, ret, snVars, fetchVars>>

\* the details request fails: Promise.all rejects, the catch block logs the
\* error and sets it, the finally block clears loading
DetailsReject ==
  /\ detailsView.pc = "waiting" /\ detailsView.detailsReq = "pending"
  /\ detailsView' = [detailsView EXCEPT !.pc = "done", !.detailsReq = "rejected",
                                         !.loading = FALSE, !.error = TRUE]
  /\ console' = <<FAILED_TO_FETCH_DETAILS>>
  /\ UNCHANGED <<now, tz, op, args, ret, snVars, fetchVars>>

\* the metrics request is answered: .then((r) => r.data || {})
DetailsMetricsResolve ==
  /\ detailsView.metricsReq = "pending"
  /\ \E body \in DetailsMetricsBodies :
       LET view == [detailsView EXCEPT !.metricsReq = "resolved", !.metrics = body]
       IN IF view.pc = "waiting" /\ view.detailsReq = "resolved"
          THEN /\ detailsView' = AfterPromiseAll(view, body).view
               /\ console' = AfterPromiseAll(view, body).console
          ELSE detailsView' = view /\ console' = <<>>
  /\ UNCHANGED <<now, tz, op, args, ret, snVars, fetchVars>>

\* the metrics request fails: .catch(() => ({})) turns the failure into an
\* empty answer
DetailsMetricsReject ==
  /\ detailsView.metricsReq = "pending"
  /\ LET view == [detailsView EXCEPT !.metricsReq = "rejected", !.metrics = EmptyBody]
     IN IF view.pc = "waiting" /\ view.detailsReq = "resolved"
        THEN /\ detailsView' = AfterPromiseAll(view, EmptyBody).view
             /\ console' = AfterPromiseAll(view, EmptyBody).console
        ELSE detailsView' = view /\ console' = <<>>
  /\ UNCHANGED <<now, tz, op, args, ret, snVars, fetchVars>>

NextDetails ==
  \/ DetailsMount
  \/ DetailsResolve
  \/ DetailsReject
  \/ DetailsMetricsResolve
  \/ DetailsMetricsReject

SpecDetails == InitDetails /\ [][NextDetails]_vars

\* a step in which a request of fetchDetails is rejected
DetailsRequestRejected ==
  \/ detailsView.detailsReq = "pending" /\ detailsView'.detailsReq = "rejected"
  \/ detailsView.metricsReq = "pending" /\ detailsView'.metricsReq = "rejected"

\* C23: every failed retrieval attempt is logged and none is silently
\* swallowed: the step in which a metrics or details request of fetchDetails
\* is rejected writes a log line or an error notification
C23_EveryRejectionLogged ==
  [][DetailsRequestRejected => console' # <<>>]_vars

\* the same statement for the details request alone: it holds
C23_DetailsRejectionLogged ==
  [][(detailsView.detailsReq = "pending" /\ detailsView'.detailsReq = "rejected")
       => (console' # <<>> /\ detailsView'.error)]_vars

(***************************************************************************)
(* The Dashboard without data sources.                                     *)
(***************************************************************************)
\* the step in which fetchMetrics call r completes (its finally block)
Completes(r) == calls[r].pc # "idle" /\ calls'[r].pc = "idle"

AtDefaults(m) ==
  /\ NumEq(m.deployment_frequency.value, defaultMetrics.deployment_frequency.value)
  /\ NumEq(m.lead_time.value, defaultMetrics.lead_time.value)
  /\ NumEq(m.change_failure_rate.value, defaultMetrics.change_failure_rate.value)
  /\ NumEq(m.mean_time_to_recovery.value, defaultMetrics.mean_time_to_recovery.value)

\* C10: when zero data sources are configured (none in the Dashboard's state
\* and none seen by the call), a fetchMetrics call that completes leaves all
\* four summaries at the static defaults 0.5, 48, 15 and 36, whatever the
\* metrics endpoint returned
C10_ZeroSourcesLeaveDefaults ==
  [][\A r \in RunIds :
       (Completes(r) /\ dataSources = <<>> /\ ~HasLength(calls[r].ds))
         => AtDefaults(metrics')]_vars

\* the part of C10 the code does keep: without data sources the deployment
\* frequency of a call answered by GET /data-sources/metrics is the default,
\* and the chart keeps the sample series
ZeroSourcesDefaultDeploymentFrequency ==
  [][\A r \in RunIds :
       (Completes(r) /\ calls[r].pc = "primary" /\ ~HasLength(calls[r].ds))
         => /\ NumEq(metrics'.deployment_frequency.value,
                     defaultMetrics.deployment_frequency.value)
            /\ metricHistory' = sampleDeploymentFrequency]_vars

\* C11: when no data source is configured, the result of an aggregation
\* carries an empty deployment-frequency series, not sample or fetched points
C11_ZeroSourcesEmptySeries ==
  [][\A r \in RunIds :
       (Completes(r) /\ dataSources = <<>> /\ ~HasLength(calls[r].ds))
         => metricHistory' = <<>>]_vars

(***************************************************************************)
(* The requests of a fetchMetrics call.                                    *)
(***************************************************************************)
Alternates(c) == Len(SelectSeq(c.requests, LAMBDA q : q = GET_ALTERNATE))

\* C12: when the primary fetch of a fetchMetrics call fails, exactly one
\* alternate retrieval (GET /metrics/github) is attempted; a call whose
\* primary fetch succeeded completes without having attempted it; and the
\* static defaults are installed only by a call whose alternate has failed
\* too.  (No answer of the modelled endpoints coincides with the defaults,
\* so metrics' = mockData is the installation of the defaults.)
C12_OneAlternateBeforeDefaults ==
  [][\A r \in RunIds :
       /\ calls[r].pc \in {"alternate", "delay"} => Alternates(calls[r]) = 1
       /\ (Completes(r) /\ calls[r].pc = "primary") => Alternates(calls[r]) = 0
       /\ (Completes(r) /\ metrics' = mockData)
            => (calls[r].pc = "alternate" /\ Alternates(calls[r]) = 1)]_vars

\* a call whose primary fetch failed waits out the delay after its one
\* alternate retrieval was answered
C12_Witness ==
  \E r \in RunIds : calls[r].pc = "delay" /\ calls[r].requests = <<GET_PRIMARY, GET_ALTERNATE>>

\* the part of C23 about fetchMetrics: the step in which its primary or its
\* alternate request is rejected writes log lines and an error toast; it
\* holds
C23_FetchMetricsRejectionsLogged ==
  [][\A r \in RunIds :
       (\/ calls[r].pc = "primary" /\ calls'[r].pc = "alternate"
        \/ calls[r].pc = "alternate" /\ calls'[r].pc = "idle")
         => console' # <<>>]_vars

\* C13: at most one fetchMetrics call is in flight at any time
C13_AtMostOneInFlight == Cardinality({r \in RunIds : calls[r].pc # "idle"}) <= 1

\* C16: the metrics state holds all four metrics, each with a finite numeric
\* value and its unit, after a fetchMetrics call completed on any path (and
\* before: the state starts at the defaults)
C16_MetricsCompleteAndNumeric ==
  /\ DOMAIN metrics = {"deployment_frequency", "lead_time", "change_failure_rate",
                       "mean_time_to_recovery"}
  /\ \A k \in DOMAIN metrics : Finite(metrics[k].value)
  /\ metrics.deployment_frequency.unit = DEPLOYMENTS_PER_DAY
  /\ metrics.lead_time.unit = HOURS
  /\ metrics.change_failure_rate.unit = PERCENT
  /\ metrics.mean_time_to_recovery.unit = HOURS

\* every call has completed and the metrics are those of a fetched answer
C16_Witness ==
  /\ mounted /\ ~loading
  /\ \A r \in RunIds : calls[r].pc = "idle"
  /\ ~AtDefaults(metrics)

(***************************************************************************)
(* The data sources a call sees, and what it stores.                       *)
(***************************************************************************)
\* the step in which fetchMetrics call r starts
Starts(r) == calls[r].pc = "idle" /\ calls'[r].pc # "idle"

SeriesAnswered ==
  /\ MetricsAnswer[tz][gh].status = 200
  /\ MetricsAnswer[tz][gh].body.deployment_frequency.t = "arr"

C24_CreateUsesFetchedData ==
  [][\A r \in RunIds :
       (Starts(r) /\ mounted /\ creating' # creating /\ dataSources' # <<>> /\ SeriesAnswered)
         => PrimaryDeployment(MetricsAnswer[tz][gh].body, calls'[r].ds)
              = PrimaryDeployment(MetricsAnswer[tz][gh].body,
                                  [k |-> "list", list |-> dataSources'])]_vars

\* C25: when the backend returns change_failure_rate as a daily series
\* together with change_failure_rate_summary, the change-failure-rate value
\* a fetchMetrics call stores from that answer equals
\* change_failure_rate_summary.value
C25_FailureRateFromSummary ==
  [][\A r \in RunIds :
       (/\ Completes(r) /\ calls[r].pc = "primary"
        /\ MetricsAnswer[tz][gh].body.change_failure_rate.t = "arr"
        /\ MetricsAnswer[tz][gh].body.change_failure_rate_summary.t = "obj"
        /\ MetricsAnswer[tz][gh].body.change_failure_rate_summary.value.t = "num")
         => NumEq(metrics'.change_failure_rate.value,
                  MetricsAnswer[tz][gh].body.change_failure_rate_summary.value.num)]_vars

\* the second case of C25, a {value, unit} object with a non-zero value: the
\* stored value is that value
C25_ObjectShapeNonZero ==
  \A v \in {Num(10), Rat(5, 2), Num(100)} :
    NumEq(PrimaryMetrics([EmptyBody EXCEPT !.change_failure_rate = JMetric(JNum(v), PERCENT)],
                         calls[1].ds).change_failure_rate.value, v)

\* the call that started last is still in flight
NewestInFlight == \E q \in RunIds : calls[q].pc # "idle" /\ calls[q].newest

\* C27: once all calls in flight have completed, the metrics state holds the
\* result of the call that started last: a call that completes after the
\* call that started last has completed does not change the metrics
C27_LastStartedCallWins ==
  [][\A r \in RunIds :
       (Completes(r) /\ ~NewestInFlight) => metrics' = metrics]_vars

\* the case of the claim alone, a call on the fallback path whose delay
\* elapses after a later call has completed: it fails too
C27_DelayedFallbackDoesNotOverwrite ==
  [][\A r \in RunIds :
       (Completes(r) /\ calls[r].pc = "delay" /\ ~NewestInFlight) => metrics' = metrics]_vars

\* C28: provided every HTTP request eventually resolves or rejects, every
\* fetchMetrics call eventually terminates, and the step in which it
\* terminates sets loading to false, on each of its paths
C28_EveryCallTerminates ==
  /\ \A r \in RunIds : (calls[r].pc # "idle") ~> (calls[r].pc = "idle")
  /\ [][\A r \in RunIds : Completes(r) => ~loading']_vars

\* a call has terminated after both of its retrievals failed
C28_Witness ==
  /\ mounted /\ ~loading
  /\ \A r \in RunIds : calls[r].pc = "idle"
  /\ metrics = mockData
  /\ metricHistory = sampleDeploymentFrequency

\* C26: loading is true whenever at least one fetchMetrics call is in flight
C26_LoadingWhileInFlight == (\E r \in RunIds : calls[r].pc # "idle") => loading

(***************************************************************************)
(* The ServiceNow route: requests and responses.                           *)
(***************************************************************************)
\* C14: two calls of GET /metrics with identical request parameters return
\* identical series and summary values: the response in flight is the one
\* that any other run of the handler on the same request, at the same
\* instant, returns
C14_SameRequestSameResponse ==
  snResp.status = 200 =>
    \A draw \in MockDraws(snReq.days) : ServiceNowMetrics(tz, now, snReq.days, draw) = snResp

\* C17: a request with days <= 0 is rejected: the caller never receives a
\* metrics result for it
C17_NonPositiveWindowRejected ==
  (snResp.status # 0 /\ snReq.days <= 0) => snResp.status \notin {200}

ResponseKeys ==
  {"deployment_frequency", "deployment_frequency_summary", "lead_time", "change_failure_rate",
   "change_failure_rate_summary", "mean_time_to_recovery"}

\* C19 (ServiceNow /metrics): every successful metrics response has the six
\* keys, with deployment_frequency_summary in deployments per day, lead_time
\* in hours, change_failure_rate_summary in percent and
\* mean_time_to_recovery in hours
C19_ResponseKeysAndUnits ==
  snResp.status = 200 =>
    /\ ResponseKeys \subseteq DOMAIN snResp
    /\ snResp.deployment_frequency_summary.unit = DEPLOYMENTS_PER_DAY
    /\ snResp.lead_time.unit = HOURS
    /\ snResp.change_failure_rate_summary.unit = PERCENT
    /\ snResp.mean_time_to_recovery.unit = HOURS

(***************************************************************************)
(* The GitHub route: responses.                                            *)
(***************************************************************************)
\* C15: a failure of an upstream fetch inside the GitHub GET /metrics
\* handler is recovered locally: every answer of the handler is a complete
\* metrics result, never an error response
C15_UpstreamFailureRecovered == ghResp.status # 0 => ghResp.status = 200

\* the GitHub response has the six keys and the four units of C19
C19_GithubKeysAndUnits ==
  ghResp.status = 200 =>
    /\ \A k \in ResponseKeys : ghResp.body[k].t \in {"obj", "arr"}
    /\ ghResp.body.deployment_frequency_summary.unit = DEPLOYMENTS_PER_DAY
    /\ ghResp.body.lead_time.unit = HOURS
    /\ ghResp.body.change_failure_rate_summary.unit = PERCENT
    /\ ghResp.body.mean_time_to_recovery.unit = HOURS

\* the workflow runs the handler fetched for the response in flight, and its
\* change_failure_rate series as integers
FetchedRuns == fetchWorkflowRunsLastNDays(tz, now, gh.runs, DaysWindow)
FailureSeriesSum ==
  SumSeq([i \in DOMAIN ghResp.body.change_failure_rate.items |->
            ghResp.body.change_failure_rate.items[i].value.num.n])

\* C29: in a GitHub /metrics response, the sum of the values of the
\* change_failure_rate series equals the number of runs with conclusion
\* "failure" that change_failure_rate_summary counts as its numerator
C29_FailureSeriesSumIsNumerator ==
  ghResp.status = 200 =>
    FailureSeriesSum = Len(SelectSeq(FetchedRuns, LAMBDA run : run.conclusion = FAILURE))

\* the same statement when every fetched run was created on a day of the
\* series: it holds
C29_WhenRunsFallInWindow ==
  (/\ ghResp.status = 200
   /\ \A j \in DOMAIN FetchedRuns :
        \E i \in DOMAIN ghResp.body.change_failure_rate.items :
          ghResp.body.change_failure_rate.items[i].date = UTCDay(FetchedRuns[j].created_at.h))
    => FailureSeriesSum = Len(SelectSeq(FetchedRuns, LAMBDA run : run.conclusion = FAILURE))
====
